---- MODULE Spec2Model ----
(***************************************************************************)
(* Flyer generator: the document generation pipeline (TemplateProcessor,   *)
(* DocumentGenerator, FileService) and the download endpoint, as they are  *)
(* written in design.md.                                                   *)
(*                                                                         *)
(* Strings are sequences of lexemes (a Text): "evento_a4.docx" is          *)
(* <<"evento", "_a4", ".docx">>, "../temp_files" is                        *)
(* <<"..", "/", "temp_files">>.  Every string operation of the code        *)
(* (f-string concatenation, str.replace, os.path.join, the kernel's path   *)
(* resolution) is computed on these sequences.                             *)
(***************************************************************************)
EXTENDS Integers, Sequences, FiniteSets, TLC

VARIABLES
    fs,          \* the file system: resolved path -> content of a regular file
    pc,          \* position of the request being served: [type, stage]
    project,     \* project_name of the generate request being served
    results,     \* the list generate_all builds
    attempted,   \* the _generate_* methods generate_all has called, in order
    raisedLog,   \* every exception raised inside a pipeline: [type, stage, error]
    img,         \* the PIL image held by _generate_gigantografia
    canvas,      \* the reportlab canvas held by _generate_gigantografia
    served,      \* number of generate requests started
    response,    \* the last answer of the download endpoint
    tplRuns,     \* the runs of a paragraph of the template, as authored
    data,        \* the dictionary handed to process_template
    filled,      \* the runs of that paragraph in the saved document
    substState,  \* "ready", then "saved" or "error" (an exception was raised)
    mtimes,      \* last-modified time of the files of the store: resolved path -> time
    clock,       \* the last value time.time() returned
    cleanup_hours, \* FileService.cleanup_hours
    sweeps,      \* what the last two runs of cleanup_old_files saw and did
    sessions,    \* AuthService.sessions: session_id -> SessionData
    progress,    \* history: for each session, how far it has come in answering
                 \* 1, 2, 3 correctly in order since its last incorrect answer
    authReply,   \* the last answer of the auth endpoints
    genReply,    \* the last generate request and what the endpoint did with it
    jobs,        \* two generate_all invocations that run at the same time:
                 \* job -> [project, contents, pc]
    writers,     \* history: resolved path -> the jobs that have written the file
    scan,        \* a run of cleanup_old_files taken statement by statement:
                 \* its position, its locals and what it has done
    store,       \* the front end's session store: [sessionId, authenticated]
    route,       \* the name of the route the router is at
    login,       \* the mounted LoginView: [id, currentQuestion, loading]
    generator,   \* the mounted GeneratorView: [generating, inflight]
    pending,     \* the requests of the login views that await their response
    journal      \* history: the number of LoginView mounts and the last event

genVars == <<fs, pc, project, results, attempted, raisedLog, img, canvas, served, response>>

substVars == <<tplRuns, data, filled, substState>>

evictVars == <<mtimes, clock, cleanup_hours, sweeps>>

\* what the pipeline and the download endpoint leave alone
authVars == <<sessions, progress, authReply, genReply>>

concVars == <<jobs, writers>>

scanVars == <<scan>>

frontVars == <<store, route, login, generator, pending, journal>>

otherVars == <<substVars, evictVars, authVars, concVars, scanVars, frontVars>>

\* the variables of the pipeline but the file system
genLocals == <<pc, project, results, attempted, raisedLog, img, canvas, served, response>>

vars == <<genVars, otherVars>>

-----------------------------------------------------------------------------
(* Bounds of the model *)

\* generate requests served one after the other in one behaviour
MaxRequests == 1

\* pieces (markers, text, delimiters) a template paragraph is written from
MaxPieces == 2

\* files found in the store when the server starts
MaxStoreFiles == 2

\* the largest time the clock shows, in units of 3600 seconds
MaxClock == 3

\* sessions created in one behaviour
MaxSessions == 1

\* how often the login view is mounted in a behaviour
MaxMounts == 2

\* how many requests of the login views await their response at a time
MaxPending == 2

-----------------------------------------------------------------------------
(* Strings *)

\* pat occurs in text at position i
OccursAt(text, i, pat) ==
    /\ i + Len(pat) - 1 <= Len(text)
    /\ \A k \in 1..Len(pat) : text[i + k - 1] = pat[k]

\* Python's `pat in text`
Contains(text, pat) == \E i \in 1..Len(text) : OccursAt(text, i, pat)

\* Python's str.replace(old, new): every non-overlapping occurrence, scanning
\* from the left; the inserted text is not scanned again
RECURSIVE ReplaceFrom(_, _, _, _)
ReplaceFrom(text, i, old, new) ==
    IF i > Len(text) THEN <<>>
    ELSE IF OccursAt(text, i, old)
         THEN new \o ReplaceFrom(text, i + Len(old), old, new)
         ELSE <<text[i]>> \o ReplaceFrom(text, i + 1, old, new)

StrReplace(text, old, new) == ReplaceFrom(text, 1, old, new)

-----------------------------------------------------------------------------
(* Paths and the file system *)

\* the result of a resolution that fails (no component is ever empty)
NoPath == << <<>> >>

\* the directories of the deployment: /app, /app/backend (the working
\* directory of the server), /app/temp_files (TEMP_STORAGE_PATH) and a
\* directory an operator has made inside the store
Dirs == { <<>>, << <<"app">> >>, << <<"app">>, <<"backend">> >>,
          << <<"app">>, <<"temp_files">> >>,
          << <<"app">>, <<"temp_files">>, <<"lotes">> >> }

Cwd == << <<"app">>, <<"backend">> >>

\* TEMP_STORAGE_PATH=../temp_files
TempStorage == <<"..", "/", "temp_files">>

StorageRoot == << <<"app">>, <<"temp_files">> >>

\* os.path.join(a, b)
PathJoin(a, b) ==
    IF Len(b) > 0 /\ b[1] = "/" THEN b
    ELSE IF Len(a) = 0 \/ a[Len(a)] = "/" THEN a \o b
    ELSE a \o <<"/">> \o b

\* the components of a path string, split at "/"
RECURSIVE SplitFrom(_, _, _)
SplitFrom(text, i, cur) ==
    IF i > Len(text) THEN <<cur>>
    ELSE IF text[i] = "/" THEN <<cur>> \o SplitFrom(text, i + 1, <<>>)
    ELSE SplitFrom(text, i + 1, Append(cur, text[i]))

Components(text) == SplitFrom(text, 1, <<>>)

\* the kernel's resolution of a path string: "." and empty components are
\* skipped, ".." goes to the parent, a name is looked up in a directory
RECURSIVE Walk(_, _, _)
Walk(at, comps, i) ==
    IF at = NoPath \/ i > Len(comps) THEN at
    ELSE IF at \notin Dirs THEN NoPath
    ELSE IF comps[i] = <<>> \/ comps[i] = <<".">> THEN Walk(at, comps, i + 1)
    ELSE IF comps[i] = <<"..">>
         THEN Walk(IF at = <<>> THEN <<>> ELSE SubSeq(at, 1, Len(at) - 1), comps, i + 1)
    ELSE Walk(Append(at, comps[i]), comps, i + 1)

Resolve(pathStr) ==
    IF pathStr = <<>> THEN NoPath
    ELSE Walk(IF pathStr[1] = "/" THEN <<>> ELSE Cwd, Components(pathStr), 1)

IsFile(files, pathStr) == Resolve(pathStr) \in DOMAIN files

IsDir(pathStr) == Resolve(pathStr) \in Dirs

\* os.path.exists
PathExists(files, pathStr) == IsFile(files, pathStr) \/ IsDir(pathStr)

\* a file can be created at pathStr: its directory exists and it is no directory
Writable(pathStr) ==
    LET p == Resolve(pathStr) IN
    /\ p /= NoPath /\ p \notin Dirs /\ Len(p) > 0
    /\ SubSeq(p, 1, Len(p) - 1) \in Dirs

WriteFile(files, pathStr, content) ==
    LET p == Resolve(pathStr) IN
    [q \in DOMAIN files \cup {p} |-> IF q = p THEN content ELSE files[q]]

RemoveFile(files, pathStr) ==
    LET p == Resolve(pathStr) IN [q \in DOMAIN files \ {p} |-> files[q]]

\* os.rename(src, dst) of an existing file
RenameFile(files, src, dst) ==
    WriteFile(RemoveFile(files, src), dst, files[Resolve(src)])

-----------------------------------------------------------------------------
(* TemplateProcessor: where the templates live *)

\* self.templates
TemplateName(templateType) ==
    IF templateType = "a4" THEN <<"Formato a4", ".docx">> ELSE <<"Formato 4x1", ".docx">>

\* template_path = os.path.join(self.template_dir, self.templates[template_type])
TemplatePath(templateType) == PathJoin(<<".">>, TemplateName(templateType))

TemplateTypes == {"a4", "4x1"}

-----------------------------------------------------------------------------
(* DocumentGenerator: names *)

Types == <<"a4", "4x1", "gigantografia">>

\* TemplateOf with the large format built from the banner template
TemplateOf_Banner(type) == IF type = "a4" THEN "a4" ELSE "4x1"

\* the template each _generate_* method passes to process_template
TemplateOf(type) == IF type = "4x1" THEN "4x1" ELSE "a4"

\* docx_path of each _generate_* method
DocxPath(type, projectName) ==
    PathJoin(TempStorage,
             projectName \o (IF type = "a4" THEN <<"_a4", ".docx">>
                             ELSE IF type = "4x1" THEN <<"_4x1", ".docx">>
                             ELSE <<"_giga_temp", ".docx">>))

\* the pdf_path each _generate_* method hands to _convert_docx_to_pdf
PdfPath(type, projectName) ==
    PathJoin(TempStorage,
             projectName \o (IF type = "a4" THEN <<"_a4", ".pdf">>
                             ELSE IF type = "4x1" THEN <<"_4x1", ".pdf">>
                             ELSE <<"_giga_temp", ".pdf">>))

\* pdf_final_path and temp_img_path of _generate_gigantografia
PdfFinalPath(projectName) == PathJoin(TempStorage, projectName \o <<"_gigantografia", ".pdf">>)

TempImgPath(projectName) == PathJoin(TempStorage, projectName \o <<"_temp", ".tiff">>)

\* ReturnedFilename returning the path of the PDF instead of its name
ReturnedFilename_Path(type, projectName) ==
    IF type = "gigantografia" THEN PdfFinalPath(projectName) ELSE PdfPath(type, projectName)

\* the filename each _generate_* method returns
ReturnedFilename(type, projectName) ==
    IF type = "a4" THEN projectName \o <<"_a4", ".pdf">>
    ELSE IF type = "4x1" THEN projectName \o <<"_4x1", ".pdf">>
    ELSE projectName \o <<"_gigantografia", ".pdf">>

\* the file LibreOffice writes into --outdir: the input's base name with its
\* last extension replaced by .pdf
LibreOfficeOutput(docxPath) == SubSeq(docxPath, 1, Len(docxPath) - 1) \o <<".pdf">>

\* generated_pdf = docx_path.replace('.docx', '.pdf')
GeneratedPdf(docxPath) == StrReplace(docxPath, <<".docx">>, <<".pdf">>)

-----------------------------------------------------------------------------
(* DocumentGenerator: images *)

NoImg == [mode |-> "none", w |-> 0, h |-> 0]

\* what pdf2image can hand back for the first page of the intermediate PDF
Modes == {"RGB", "L", "CMYK"}

PageSizes == { <<2480, 3508>>, <<2550, 3300>> }

\* target_size = (11811, 17717)
TargetWidth == 11811

TargetHeight == 17717

\* ToCMYK without the conversion
ToCMYK_Skip(image) == image

\* if img.mode != 'CMYK': img = img.convert('CMYK')
ToCMYK(image) == IF image.mode /= "CMYK" THEN [image EXCEPT !.mode = "CMYK"] ELSE image

\* img.resize(target_size, Image.Resampling.LANCZOS)
Resize(image, width, height) == [image EXCEPT !.w = width, !.h = height]

NoCanvas == [path |-> <<>>, pageW |-> 0, pageH |-> 0, drawn |-> <<>>]

\* canvas.Canvas(pdf_final_path, pagesize=(11811, 17717))
NewCanvas(path) == [path |-> path, pageW |-> 11811, pageH |-> 17717, drawn |-> <<>>]

\* c.drawImage(temp_img_path, 0, 0, width=11811, height=17717)
DrawImage(c, image) ==
    [c EXCEPT !.drawn = Append(c.drawn, [x |-> 0, y |-> 0, w |-> 11811, h |-> 17717,
                                          mode |-> image.mode,
                                          pxW |-> image.w, pxH |-> image.h])]

\* c.save(): the page under construction is closed and the file is written
SavedPdf(c) ==
    [kind |-> "pdf", pages |-> << [w |-> c.pageW, h |-> c.pageH, images |-> c.drawn] >>]

\* the contents of the other files the pipeline writes
DocxFile(templateType) == [kind |-> "docx", template |-> templateType]

OfficePdf(docx) == [kind |-> "pdf", pages |-> << [from |-> docx.template] >>]

TiffFile(image) == [kind |-> "tiff", image |-> image]

TemplateFile(templateType) == [kind |-> "template", template |-> templateType]

-----------------------------------------------------------------------------
(* DocumentGenerator.generate_all *)

\* the project names of the requests: a plain one, and one that itself holds
\* the text ".docx"
Projects == { <<"Campana_Navidad">>, <<"afiche", ".docx">> }

Idle == [type |-> "none", stage |-> "idle"]

Done == [type |-> "none", stage |-> "done"]

\* an exception has left generate_all
Raised == [type |-> "none", stage |-> "raised"]

At(type, stage) == pc = [type |-> type, stage |-> stage]

\* AfterVariant with the second try block left out
AfterVariant_Skip4x1(type) ==
    IF type = "a4" THEN [type |-> "gigantografia", stage |-> "template"] ELSE Done

\* the try block that follows the one of `type`, or the return
AfterVariant(type) ==
    IF type = "a4" THEN [type |-> "4x1", stage |-> "template"]
    ELSE IF type = "4x1" THEN [type |-> "gigantografia", stage |-> "template"]
    ELSE Done

\* the except block that names a file in its dictionary
ErrorEntry_KeepName(type, error) ==
    [type |-> type, filename |-> <<"documento", ".pdf">>, status |-> "error", message |-> error]

\* the dictionary appended by an except block
ErrorEntry(type, error) ==
    [type |-> type, filename |-> <<>>, status |-> "error", message |-> error]

\* the dictionary appended when a _generate_* method returns
SuccessEntry(type, filename) ==
    [type |-> type, filename |-> filename, status |-> "success"]

\* Catch that records the error and returns at once
Catch_Return(type, error) ==
    /\ results' = Append(results, ErrorEntry(type, error))
    /\ pc' = Done
    /\ img' = NoImg
    /\ canvas' = NoCanvas

\* Catch that lets the exception leave generate_all
Catch_Propagate(type, error) ==
    /\ results' = results
    /\ pc' = Raised
    /\ img' = NoImg
    /\ canvas' = NoCanvas

\* `except Exception as e` of the try block of `type`
Catch(type, error) ==
    /\ results' = Append(results, ErrorEntry(type, error))
    /\ pc' = AfterVariant(type)
    /\ img' = NoImg
    /\ canvas' = NoCanvas

\* an exception raised at pc inside a _generate_* method; the locals of the
\* method (img, c) are dropped with its frame
Raise(error) ==
    /\ raisedLog' = raisedLog \cup {[type |-> pc.type, stage |-> pc.stage, error |-> error]}
    /\ Catch(pc.type, error)

\* a _generate_* method returns its filename
Return(type) ==
    /\ results' = Append(results, SuccessEntry(type, ReturnedFilename(type, project)))
    /\ pc' = AfterVariant(type)
    /\ img' = NoImg
    /\ canvas' = NoCanvas
    /\ UNCHANGED raisedLog

\* attempted, once pc' is known: entering a try block calls its method
Calls == attempted' = IF pc'.stage = "template" THEN Append(attempted, pc'.type) ELSE attempted

\* document_generator.generate_all(data, project_name) is called
CallGenerateAll(projectName) ==
    /\ pc \in {Idle, Done}
    /\ served < MaxRequests
    /\ served' = served + 1
    /\ project' = projectName
    /\ results' = <<>>
    /\ attempted' = <<"a4">>
    /\ raisedLog' = {}
    /\ pc' = [type |-> "a4", stage |-> "template"]
    /\ img' = NoImg
    /\ canvas' = NoCanvas
    /\ response' = [filename |-> <<>>, path |-> <<>>, status |-> 0]
    /\ UNCHANGED fs

\* POST /api/generate reaches document_generator.generate_all
GenerateAll(projectName) ==
    /\ CallGenerateAll(projectName)
    /\ UNCHANGED otherVars

InPipeline == pc.stage \notin {"idle", "done", "raised"}

\* process_template: the template file is missing
ProcessTemplateMissing ==
    /\ InPipeline /\ pc.stage = "template"
    /\ ~PathExists(fs, TemplatePath(TemplateOf(pc.type)))
    /\ Raise("FileNotFoundError: Plantilla no encontrada")
    /\ Calls
    /\ UNCHANGED <<fs, project, served, response>>
    /\ UNCHANGED otherVars

\* process_template: the filled document is saved at docx_path
ProcessTemplateOk ==
    /\ InPipeline /\ pc.stage = "template"
    /\ PathExists(fs, TemplatePath(TemplateOf(pc.type)))
    /\ Writable(DocxPath(pc.type, project))
    /\ fs' = WriteFile(fs, DocxPath(pc.type, project), DocxFile(TemplateOf(pc.type)))
    /\ pc' = [pc EXCEPT !.stage = "convert"]
    /\ UNCHANGED <<project, results, attempted, raisedLog, img, canvas, served, response>>
    /\ UNCHANGED otherVars

\* process_template: Document(), the replacement or doc.save raises
ProcessTemplateFail ==
    /\ InPipeline /\ pc.stage = "template"
    /\ PathExists(fs, TemplatePath(TemplateOf(pc.type)))
    /\ Raise("OSError: process_template")
    /\ Calls
    /\ UNCHANGED <<fs, project, served, response>>
    /\ UNCHANGED otherVars

\* _convert_docx_to_pdf: LibreOffice exits with a non-zero status
ConvertFail ==
    /\ InPipeline /\ pc.stage = "convert"
    /\ Raise("CalledProcessError: libreoffice")
    /\ Calls
    /\ UNCHANGED <<fs, project, served, response>>
    /\ UNCHANGED otherVars

\* _convert_docx_to_pdf: LibreOffice exits with status 0, having written its
\* output or not; then the rename of lines 465-467
ConvertExitZero(outputWritten) ==
    LET docx == DocxPath(pc.type, project)
        pdf == PdfPath(pc.type, project)
        generated == GeneratedPdf(docx)
        after == IF outputWritten
                 THEN WriteFile(fs, LibreOfficeOutput(docx), OfficePdf(fs[Resolve(docx)]))
                 ELSE fs
    IN
    /\ InPipeline /\ pc.stage = "convert"
    /\ IF generated /= pdf
       THEN IF IsFile(after, generated)
            THEN /\ fs' = RenameFile(after, generated, pdf)
                 /\ IF pc.type = "gigantografia"
                    THEN pc' = [pc EXCEPT !.stage = "render"] /\ UNCHANGED <<results, raisedLog, img, canvas>>
                    ELSE Return(pc.type)
            ELSE /\ fs' = after
                 /\ Raise("FileNotFoundError: rename")
       ELSE /\ fs' = after
            /\ IF pc.type = "gigantografia"
               THEN pc' = [pc EXCEPT !.stage = "render"] /\ UNCHANGED <<results, raisedLog, img, canvas>>
               ELSE Return(pc.type)
    /\ Calls
    /\ UNCHANGED <<project, served, response>>
    /\ UNCHANGED otherVars

\* convert_from_path raises: the intermediate PDF is missing or unreadable
RenderFail ==
    /\ At("gigantografia", "render")
    /\ Raise("PDFPageCountError: convert_from_path")
    /\ Calls
    /\ UNCHANGED <<fs, project, served, response>>
    /\ UNCHANGED otherVars

\* convert_from_path returns no page: images[0] raises IndexError
RenderNoPages ==
    /\ At("gigantografia", "render")
    /\ IsFile(fs, PdfPath("gigantografia", project))
    /\ Raise("IndexError: list index out of range")
    /\ Calls
    /\ UNCHANGED <<fs, project, served, response>>
    /\ UNCHANGED otherVars

\* img = images[0]
RenderOk(mode, size) ==
    /\ At("gigantografia", "render")
    /\ IsFile(fs, PdfPath("gigantografia", project))
    /\ img' = [mode |-> mode, w |-> size[1], h |-> size[2]]
    /\ pc' = [pc EXCEPT !.stage = "resize"]
    /\ UNCHANGED <<fs, project, results, attempted, raisedLog, canvas, served, response>>
    /\ UNCHANGED otherVars

\* lines 424-434: the image is converted and resized, the canvas is created
ResizeOk ==
    /\ At("gigantografia", "resize")
    /\ img' = Resize(ToCMYK(img), TargetWidth, TargetHeight)
    /\ canvas' = NewCanvas(PdfFinalPath(project))
    /\ pc' = [pc EXCEPT !.stage = "tiff"]
    /\ UNCHANGED <<fs, project, results, attempted, raisedLog, served, response>>
    /\ UNCHANGED otherVars

\* img.convert or img.resize raises (MemoryError, DecompressionBombError)
ResizeFail ==
    /\ At("gigantografia", "resize")
    /\ Raise("MemoryError: resize")
    /\ Calls
    /\ UNCHANGED <<fs, project, served, response>>
    /\ UNCHANGED otherVars

\* img_resized.save(temp_img_path, 'TIFF')
SaveTiffOk ==
    /\ At("gigantografia", "tiff")
    /\ Writable(TempImgPath(project))
    /\ fs' = WriteFile(fs, TempImgPath(project), TiffFile(img))
    /\ pc' = [pc EXCEPT !.stage = "draw"]
    /\ UNCHANGED <<project, results, attempted, raisedLog, img, canvas, served, response>>
    /\ UNCHANGED otherVars

SaveTiffFail ==
    /\ At("gigantografia", "tiff")
    /\ Raise("OSError: save tiff")
    /\ Calls
    /\ UNCHANGED <<fs, project, served, response>>
    /\ UNCHANGED otherVars

\* c.drawImage(temp_img_path, ...): the image file is read back
DrawOk ==
    /\ At("gigantografia", "draw")
    /\ IsFile(fs, TempImgPath(project))
    /\ canvas' = DrawImage(canvas, fs[Resolve(TempImgPath(project))].image)
    /\ pc' = [pc EXCEPT !.stage = "save"]
    /\ UNCHANGED <<fs, project, results, attempted, raisedLog, img, served, response>>
    /\ UNCHANGED otherVars

DrawFail ==
    /\ At("gigantografia", "draw")
    /\ Raise("OSError: drawImage")
    /\ Calls
    /\ UNCHANGED <<fs, project, served, response>>
    /\ UNCHANGED otherVars

\* c.save()
CanvasSaveOk ==
    /\ At("gigantografia", "save")
    /\ Writable(canvas.path)
    /\ fs' = WriteFile(fs, canvas.path, SavedPdf(canvas))
    /\ pc' = [pc EXCEPT !.stage = "rm_tiff"]
    /\ UNCHANGED <<project, results, attempted, raisedLog, img, canvas, served, response>>
    /\ UNCHANGED otherVars

CanvasSaveFail ==
    /\ At("gigantografia", "save")
    /\ Raise("OSError: canvas save")
    /\ Calls
    /\ UNCHANGED <<fs, project, served, response>>
    /\ UNCHANGED otherVars

\* the file each os.remove of lines 445-447 deletes
RemoveTarget(stage) ==
    IF stage = "rm_tiff" THEN TempImgPath(project)
    ELSE IF stage = "rm_pdf" THEN PdfPath("gigantografia", project)
    ELSE DocxPath("gigantografia", project)

RemoveStages == {"rm_tiff", "rm_pdf", "rm_docx"}

\* os.remove succeeds; after the third one the method returns
RemoveOk ==
    /\ pc.type = "gigantografia" /\ pc.stage \in RemoveStages
    /\ IsFile(fs, RemoveTarget(pc.stage))
    /\ fs' = RemoveFile(fs, RemoveTarget(pc.stage))
    /\ IF pc.stage = "rm_tiff"
       THEN pc' = [pc EXCEPT !.stage = "rm_pdf"] /\ UNCHANGED <<results, raisedLog, img, canvas>>
       ELSE IF pc.stage = "rm_pdf"
       THEN pc' = [pc EXCEPT !.stage = "rm_docx"] /\ UNCHANGED <<results, raisedLog, img, canvas>>
       ELSE Return("gigantografia")
    /\ Calls
    /\ UNCHANGED <<project, served, response>>
    /\ UNCHANGED otherVars

\* os.remove raises (the file is gone, or may not be deleted)
RemoveFail ==
    /\ pc.type = "gigantografia" /\ pc.stage \in RemoveStages
    /\ Raise("OSError: remove")
    /\ Calls
    /\ UNCHANGED <<fs, project, served, response>>
    /\ UNCHANGED otherVars

-----------------------------------------------------------------------------
(* TemplateProcessor._replace_in_runs *)

\* a value of the data dictionary: a str, or None
Str(text) == [none |-> FALSE, text |-> text]

PyNone == [none |-> TRUE, text |-> <<>>]

\* the keys of `replacements`, in the order the dictionary is iterated
MarkerKeys == <<"fecha_evento", "hora_evento", "lugar_evento", "referencia_evento">>

\* the marker of a key: "{{" + key + "}}"
MarkerOf(key) == <<"{{", key, "}}">>

\* data.get(key, "")
DataGet(d, key) == IF key \in DOMAIN d THEN d[key] ELSE Str(<<>>)

\* one turn of the inner loop: if marker in run.text:
\*     run.text = run.text.replace(marker, value)
\* str.replace raises TypeError when value is None
ReplaceMarker(run, key, d) ==
    IF run.err \/ ~Contains(run.text, MarkerOf(key)) THEN run
    ELSE IF DataGet(d, key).none THEN [run EXCEPT !.err = TRUE]
    ELSE [run EXCEPT !.text = StrReplace(run.text, MarkerOf(key), DataGet(d, key).text)]

\* the inner loop over replacements.items(), for one run
RECURSIVE ReplaceFromKey(_, _, _)
ReplaceFromKey(run, k, d) ==
    IF k > Len(MarkerKeys) THEN run
    ELSE ReplaceFromKey(ReplaceMarker(run, MarkerKeys[k], d), k + 1, d)

ReplaceInRun(text, d) == ReplaceFromKey([text |-> text, err |-> FALSE], 1, d)

\* _replace_in_runs(runs, data)
ReplaceInRuns(runs, d) == [r \in 1..Len(runs) |-> ReplaceInRun(runs[r], d)]

-----------------------------------------------------------------------------
(* FileService.get_file_path and GET /api/download/{filename} *)

\* "no path": None
None == <<>>

\* FileService.get_file_path(filename)
GetFilePath(files, filename) ==
    LET file_path == PathJoin(TempStorage, filename) IN
    IF PathExists(files, file_path) THEN file_path ELSE None

\* download_file: 404 when get_file_path gives None, else the FileResponse,
\* which answers 200 for a regular file and fails for anything else
DownloadStatus(files, file_path) ==
    IF file_path = None THEN 404
    ELSE IF IsFile(files, file_path) THEN 200
    ELSE 500

\* the filenames asked of the download endpoint
LookupNames ==
    { ReturnedFilename("a4", p) : p \in Projects }
    \cup { <<"nada", ".pdf">>, <<".">>, <<"..">>,
           <<"..", "/", "backend", "/">> \o TemplateName("a4"),
           <<"/", "app", "/", "backend", "/">> \o TemplateName("4x1") }

\* the endpoint is an `async def` that calls blocking code, so the server
\* answers one request at a time: a download is served between generations
Download(filename) ==
    /\ pc \in {Idle, Done}
    /\ response' = [filename |-> filename,
                    path |-> GetFilePath(fs, filename),
                    status |-> DownloadStatus(fs, GetFilePath(fs, filename))]
    /\ UNCHANGED <<fs, pc, project, results, attempted, raisedLog, img, canvas, served>>
    /\ UNCHANGED otherVars

-----------------------------------------------------------------------------
(* FileService.cleanup_old_files *)

\* Times are counted in units of 3600 seconds, so that
\* cutoff = now - (self.cleanup_hours * 3600) is now - cleanup_hours.

\* os.listdir(self.storage_path): the names of the files and directories
\* that lie directly in the store
ListDir(files) ==
    { p[Len(p)] : p \in { q \in DOMAIN files \cup Dirs :
                            Len(q) = Len(StorageRoot) + 1
                            /\ SubSeq(q, 1, Len(StorageRoot)) = StorageRoot } }

\* file_path = os.path.join(self.storage_path, filename)
StorePath(filename) == PathJoin(TempStorage, filename)

\* Cutoff that forgets cleanup_hours
Cutoff_Now(now, hours) == now

\* cutoff = now - (self.cleanup_hours * 3600)
Cutoff(now, hours) == now - hours

\* Expired that also takes the files exactly at the cutoff
Expired_AtCutoff(file_age, cutoff) == file_age <= cutoff

\* if file_age < cutoff  (file_age is the result of os.path.getmtime)
Expired(file_age, cutoff) == file_age < cutoff

\* the names the loop hands to os.remove
Selected(files, times, now, hours) ==
    { n \in ListDir(files) :
        /\ IsFile(files, StorePath(n))
        /\ Expired(times[Resolve(StorePath(n))], Cutoff(now, hours)) }

\* the record of one run: the regular files met with their mtimes, the names
\* handed to os.remove, and those for which os.remove raised
SweepRecord(files, times, now, hours, failing) ==
    [ at      |-> now,
      hours   |-> hours,
      before  |-> [n \in { m \in ListDir(files) : IsFile(files, StorePath(m)) } |->
                      times[Resolve(StorePath(n))]],
      tried   |-> Selected(files, times, now, hours),
      failed  |-> failing ]

\* cleanup_old_files(): time.time() returns now; os.remove raises for the
\* files in `failing`, which the except block prints and skips
CleanupOldFiles(now, failing) ==
    LET gone == { Resolve(StorePath(n)) :
                    n \in Selected(fs, mtimes, now, cleanup_hours) \ failing }
    IN
    /\ now >= clock
    /\ failing \subseteq Selected(fs, mtimes, now, cleanup_hours)
    /\ clock' = now
    /\ fs' = [p \in DOMAIN fs \ gone |-> fs[p]]
    /\ mtimes' = [p \in DOMAIN mtimes \ gone |-> mtimes[p]]
    /\ sweeps' = (IF sweeps = <<>> THEN <<>> ELSE <<sweeps[Len(sweeps)]>>)
                   \o <<SweepRecord(fs, mtimes, now, cleanup_hours, failing)>>
    /\ UNCHANGED <<pc, project, results, attempted, raisedLog, img, canvas, served, response>>
    /\ UNCHANGED <<cleanup_hours, substVars, authVars, concVars, scanVars, frontVars>>

\* the eviction is not part of a behaviour
EvictOff ==
    /\ mtimes = <<>>
    /\ clock = 0
    /\ cleanup_hours = 24
    /\ sweeps = <<>>

-----------------------------------------------------------------------------
(* cleanup_old_files, statement by statement, while other requests and
   processes delete files of the store *)

\* no run of cleanup_old_files has started
NoScan ==
    [ stage |-> "idle", todo |-> <<>>, cutoff |-> 0, filename |-> <<>>,
      listed |-> {}, tried |-> {}, failed |-> {}, raised |-> "" ]

\* the orders in which os.listdir may give the names
Orders(names) ==
    { o \in [1..Cardinality(names) -> names] :
        \A i, j \in 1..Cardinality(names) : i /= j => o[i] /= o[j] }

\* lines 495-498: now, cutoff, and the listing the for loop runs over
ScanStart(now, order) ==
    /\ scan.stage \in {"idle", "returned", "raised"}
    /\ now >= clock
    /\ order \in Orders(ListDir(fs))
    /\ clock' = now
    /\ scan' = [ stage |-> "next", todo |-> order, cutoff |-> Cutoff(now, cleanup_hours),
                 filename |-> <<>>, listed |-> ListDir(fs), tried |-> {}, failed |-> {},
                 raised |-> "" ]
    /\ UNCHANGED <<genVars, mtimes, cleanup_hours, sweeps, substVars, authVars, concVars, frontVars>>

\* the for statement takes the next name, or the method returns
ScanFor ==
    /\ scan.stage = "next"
    /\ scan' = IF scan.todo = <<>>
               THEN [scan EXCEPT !.stage = "returned", !.filename = <<>>]
               ELSE [scan EXCEPT !.stage = "isfile", !.filename = Head(scan.todo),
                                 !.todo = Tail(scan.todo)]
    /\ UNCHANGED <<genVars, evictVars, substVars, authVars, concVars, frontVars>>

\* line 500: if os.path.isfile(file_path)
ScanIsFile ==
    /\ scan.stage = "isfile"
    /\ scan' = [scan EXCEPT !.stage = IF IsFile(fs, StorePath(scan.filename))
                                      THEN "getmtime" ELSE "next"]
    /\ UNCHANGED <<genVars, evictVars, substVars, authVars, concVars, frontVars>>

\* lines 501-502: os.path.getmtime raises FileNotFoundError for a file that is
\* no longer there; the call stands outside the try block, so the exception
\* leaves cleanup_old_files
ScanGetMtime ==
    /\ scan.stage = "getmtime"
    /\ scan' = IF ~IsFile(fs, StorePath(scan.filename))
               THEN [scan EXCEPT !.stage = "raised", !.raised = "FileNotFoundError: getmtime"]
               ELSE IF Expired(mtimes[Resolve(StorePath(scan.filename))], scan.cutoff)
               THEN [scan EXCEPT !.stage = "remove"]
               ELSE [scan EXCEPT !.stage = "next"]
    /\ UNCHANGED <<genVars, evictVars, substVars, authVars, concVars, frontVars>>

\* lines 505-506: the error of os.remove is printed and the loop goes on
ScanCaught(sc, name) ==
    [sc EXCEPT !.stage = "next", !.tried = @ \cup {name}, !.failed = @ \cup {name}]

\* lines 503-504: os.remove(file_path) deletes the file
ScanRemoveOk ==
    /\ scan.stage = "remove"
    /\ IsFile(fs, StorePath(scan.filename))
    /\ fs' = RemoveFile(fs, StorePath(scan.filename))
    /\ mtimes' = [p \in DOMAIN mtimes \ {Resolve(StorePath(scan.filename))} |-> mtimes[p]]
    /\ scan' = [scan EXCEPT !.stage = "next", !.tried = @ \cup {scan.filename}]
    /\ UNCHANGED <<genLocals, clock, cleanup_hours, sweeps, substVars, authVars, concVars, frontVars>>

\* os.remove raises: the file is gone, or may not be deleted
ScanRemoveFail ==
    /\ scan.stage = "remove"
    /\ scan' = ScanCaught(scan, scan.filename)
    /\ UNCHANGED <<genVars, evictVars, substVars, authVars, concVars, frontVars>>

\* while the run is under way a file of the store is deleted by someone else:
\* os.remove or os.rename of a generation that runs at the same time (lines
\* 445-447, 467), or another process
OtherRemoves(name) ==
    /\ scan.stage \notin {"idle", "returned", "raised"}
    /\ IsFile(fs, StorePath(name))
    /\ fs' = RemoveFile(fs, StorePath(name))
    /\ mtimes' = [p \in DOMAIN mtimes \ {Resolve(StorePath(name))} |-> mtimes[p]]
    /\ UNCHANGED <<genLocals, clock, cleanup_hours, sweeps, substVars, authVars, concVars, scanVars, frontVars>>

\* no run is taken statement by statement
ScanOff == scan = NoScan

-----------------------------------------------------------------------------
(* AuthService *)

\* self.security_questions
SecurityQuestions ==
    << [number |-> 1, text |-> <<"pregunta 1">>, answer |-> <<"iglesia", " ", "central">>],
       [number |-> 2, text |-> <<"pregunta 2">>, answer |-> <<"lima">>],
       [number |-> 3, text |-> <<"pregunta 3">>, answer |-> <<"esperanza", " ", "viva">>] >>

\* the place of list[i] in a Python list of n elements, counted from 1;
\* 0 when list[i] raises IndexError
PyIndex(i, n) ==
    IF 0 <= i /\ i < n THEN i + 1
    ELSE IF 0 - n <= i /\ i < 0 THEN i + n + 1
    ELSE 0

Whitespace == {" ", "\t"}

Punctuation == {"!", ".", ","}

\* str.lower() on a lexeme
Lower(lex) ==
    IF lex = "LIMA" THEN "lima"
    ELSE IF lex = "Iglesia" THEN "iglesia"
    ELSE IF lex = "Central" THEN "central"
    ELSE lex

\* str.strip()
RECURSIVE LStrip(_)
LStrip(text) ==
    IF text /= <<>> /\ Head(text) \in Whitespace THEN LStrip(Tail(text)) ELSE text

RECURSIVE RStrip(_)
RStrip(text) ==
    IF text /= <<>> /\ text[Len(text)] \in Whitespace
    THEN RStrip(SubSeq(text, 1, Len(text) - 1))
    ELSE text

\* re.sub(r'[^\w\s]', '', text)
NotPunctuation(lex) == lex \notin Punctuation

\* re.sub(r'\s+', ' ', text)
RECURSIVE CollapseSpaces(_)
CollapseSpaces(text) ==
    IF text = <<>> THEN <<>>
    ELSE IF Head(text) \in Whitespace
         THEN IF Len(text) > 1 /\ text[2] \in Whitespace
              THEN CollapseSpaces(Tail(text))
              ELSE <<" ">> \o CollapseSpaces(Tail(text))
         ELSE <<Head(text)>> \o CollapseSpaces(Tail(text))

\* AuthService._normalize_text
NormalizeText(text) ==
    LET stripped == RStrip(LStrip(text))
        lowered == [i \in 1..Len(stripped) |-> Lower(stripped[i])]
    IN CollapseSpaces(SelectSeq(lowered, NotPunctuation))

SessionData(session_id, current_question, authenticated) ==
    [session_id |-> session_id, current_question |-> current_question,
     authenticated |-> authenticated]

\* session_id = str(uuid.uuid4()): an id no session has yet
NewSessionId(table) == Cardinality(DOMAIN table) + 1

\* the table after self.sessions[sid] = session
Put(table, sid, session) ==
    [k \in DOMAIN table \cup {sid} |-> IF k = sid THEN session ELSE table[k]]

\* the correct branch that never authenticates
OnCorrect_NoAuth(table, sid, question_number) ==
    [ sessions |-> Put(table, sid, [table[sid] EXCEPT !.current_question = question_number + 1]),
      raised   |-> "",
      result   |-> [success |-> TRUE,
                    next_question |-> question_number + 1,
                    question_text |-> SecurityQuestions[1].text] ]

\* the branch of a correct answer (lines 196-207)
OnCorrect(table, sid, question_number) ==
    IF question_number = 3
    THEN [ sessions |-> Put(table, sid, [table[sid] EXCEPT !.authenticated = TRUE]),
           raised   |-> "",
           result   |-> [success |-> TRUE, message |-> "Autenticacion exitosa"] ]
    ELSE LET next_q == SecurityQuestions[PyIndex(question_number, 3)] IN
         [ sessions |-> Put(table, sid, [table[sid] EXCEPT !.current_question = question_number + 1]),
           raised   |-> "",
           result   |-> [success |-> TRUE,
                         next_question |-> next_q.number,
                         question_text |-> next_q.text] ]

\* the incorrect branch that keeps the session where it is
OnIncorrect_Stay(table, sid) ==
    [ sessions |-> table,
      raised   |-> "",
      result   |-> [success |-> FALSE,
                    message |-> "Respuesta incorrecta. Reiniciando...",
                    next_question |-> table[sid].current_question,
                    question_text |-> SecurityQuestions[1].text] ]

\* the branch of an incorrect answer (lines 208-216)
OnIncorrect(table, sid) ==
    [ sessions |-> Put(table, sid, [table[sid] EXCEPT !.current_question = 1]),
      raised   |-> "",
      result   |-> [success |-> FALSE,
                    message |-> "Respuesta incorrecta. Reiniciando...",
                    next_question |-> 1,
                    question_text |-> SecurityQuestions[1].text] ]

\* what a raised exception leaves: the table as it was
Raises(table, error) == [sessions |-> table, raised |-> error, result |-> [error |-> error]]

\* the unknown-session branch that opens a session for the id
OnUnknown_Create(table, sid) ==
    [ sessions |-> Put(table, sid, SessionData(sid, 1, FALSE)),
      raised   |-> "ValueError",
      result   |-> [error |-> "ValueError"] ]

\* raise ValueError("Sesion invalida")
OnUnknown(table, sid) == Raises(table, "ValueError")

\* AuthService.validate_answer(session_id, question_number, answer)
Validate(table, sid, question_number, answer) ==
    IF sid \notin DOMAIN table THEN OnUnknown(table, sid)
    ELSE IF PyIndex(question_number - 1, 3) = 0 THEN Raises(table, "IndexError")
    ELSE IF NormalizeText(answer) = SecurityQuestions[PyIndex(question_number - 1, 3)].answer
         THEN OnCorrect(table, sid, question_number)
         ELSE OnIncorrect(table, sid)

\* is_authenticated that is content with a session that exists
IsAuthenticated_Exists(table, sid) == sid \in DOMAIN table

\* AuthService.is_authenticated
IsAuthenticated(table, sid) == sid \in DOMAIN table /\ table[sid].authenticated

\* the status of POST /api/auth/validate-answer: an exception of the service
\* that is no InvalidSessionError, or a result ValidationResponse(**result)
\* rejects (message is a required field), gives 500
ValidateStatus(out) ==
    IF out.raised /= "" THEN 500
    ELSE IF "message" \notin DOMAIN out.result THEN 500
    ELSE 200

NoAuthReply == [op |-> "none", sid |-> 0, question_number |-> 0, answer |-> <<>>,
                status |-> 0, result |-> [error |-> ""]]

\* POST /api/auth/start-session
CreateSession ==
    /\ Cardinality(DOMAIN sessions) < MaxSessions
    /\ LET sid == NewSessionId(sessions) IN
       /\ sessions' = Put(sessions, sid, SessionData(sid, 1, FALSE))
       /\ progress' = Put(progress, sid, 0)
       /\ authReply' = [op |-> "start-session", sid |-> sid, question_number |-> 1,
                        answer |-> <<>>, status |-> 200,
                        result |-> [question_number |-> SecurityQuestions[1].number,
                                    question_text |-> SecurityQuestions[1].text]]
    /\ UNCHANGED <<genReply, genVars, substVars, evictVars, concVars, scanVars, frontVars>>

\* the history of a session after an answer: correct answers to 1, 2, 3 in
\* this order move it on, an incorrect answer takes it back
ProgressAfter(before, question_number, success) ==
    IF ~success THEN 0
    ELSE IF before < 3 /\ question_number = before + 1 THEN before + 1
    ELSE before

\* POST /api/auth/validate-answer
ValidateAnswer(sid, question_number, answer) ==
    LET out == Validate(sessions, sid, question_number, answer) IN
    /\ sessions' = out.sessions
    /\ progress' = IF out.raised = ""
                   THEN Put(progress, sid,
                            ProgressAfter(progress[sid], question_number, out.result.success))
                   ELSE progress
    /\ authReply' = [op |-> "validate-answer", sid |-> sid,
                     question_number |-> question_number, answer |-> answer,
                     status |-> ValidateStatus(out), result |-> out.result]
    /\ UNCHANGED <<genReply, genVars, substVars, evictVars, concVars, scanVars, frontVars>>

NoGenReply == [sid |-> 0, project |-> <<>>, status |-> 0]

\* POST /api/generate (generate_documents): 401 for a session that is not
\* authenticated, 400 for a blank nombre_proyecto, else generate_all is called
GenerateDocuments(sid, projectName) ==
    /\ pc \in {Idle, Done}
    /\ IF ~IsAuthenticated(sessions, sid)
       THEN /\ genReply' = [sid |-> sid, project |-> projectName, status |-> 401]
            /\ UNCHANGED genVars
       ELSE IF RStrip(LStrip(projectName)) = <<>>
       THEN /\ genReply' = [sid |-> sid, project |-> projectName, status |-> 400]
            /\ UNCHANGED genVars
       ELSE /\ CallGenerateAll(projectName)
            /\ genReply' = [sid |-> sid, project |-> projectName, status |-> 0]
    /\ UNCHANGED <<sessions, progress, authReply, substVars, evictVars, concVars, scanVars, frontVars>>

\* the auth service is not part of a behaviour
AuthOff ==
    /\ sessions = <<>>
    /\ progress = <<>>
    /\ authReply = NoAuthReply
    /\ genReply = NoGenReply

-----------------------------------------------------------------------------
(* Two invocations of generate_all that run at the same time *)

\* The steps below are those of the _generate_* methods, one per call that
\* reads or writes the store, taken by job i on the shared file system.  A
\* call fails when the file it needs is not there; of the failures that do
\* not depend on the store, those of LibreOffice are kept.

JobIds == {1, 2}

\* the file a job writes: what it is and whose request it was made from
JobFile(kind, job) == [kind |-> kind, contents |-> job.contents]

\* the history after job i has written pathStr (created or replaced the
\* file, or moved it away with os.rename)
WroteIn(history, i, pathStr) ==
    LET p == Resolve(pathStr) IN
    [q \in DOMAIN history \cup {p} |->
        IF q = p THEN (IF p \in DOMAIN history THEN history[p] ELSE {}) \cup {i}
        ELSE history[q]]

Wrote(i, pathStr) == WroteIn(writers, i, pathStr)

\* job i moves on
MoveJob(i, next) == jobs' = [jobs EXCEPT ![i].pc = next]

\* an exception in a _generate_* method of job i: the except block of
\* generate_all records it and the next variant is tried
JobRaises(i) == MoveJob(i, AfterVariant(jobs[i].pc.type))

JobAt(i, stage) == jobs[i].pc.stage = stage

\* process_template: doc.save(docx_path)
JobProcessTemplate(i) ==
    LET docx == DocxPath(jobs[i].pc.type, jobs[i].project) IN
    /\ JobAt(i, "template")
    /\ IF Writable(docx)
       THEN /\ fs' = WriteFile(fs, docx, JobFile("docx", jobs[i]))
            /\ writers' = Wrote(i, docx)
            /\ MoveJob(i, [jobs[i].pc EXCEPT !.stage = "convert"])
       ELSE /\ JobRaises(i)
            /\ UNCHANGED <<fs, writers>>
    /\ UNCHANGED <<genLocals, substVars, evictVars, authVars, scanVars, frontVars>>

\* subprocess.run(cmd, check=True): LibreOffice exits with a non-zero status
\* ("nonzero"), or with 0 having written its output ("written") or not
JobLibreOffice(i, outcome) ==
    LET docx == DocxPath(jobs[i].pc.type, jobs[i].project) IN
    /\ JobAt(i, "convert")
    /\ outcome = "written" => IsFile(fs, docx)
    /\ IF outcome = "nonzero"
       THEN /\ JobRaises(i)
            /\ UNCHANGED <<fs, writers>>
       ELSE /\ MoveJob(i, [jobs[i].pc EXCEPT !.stage = "rename"])
            /\ IF outcome = "written"
               THEN /\ fs' = WriteFile(fs, LibreOfficeOutput(docx), JobFile("pdf", jobs[i]))
                    /\ writers' = Wrote(i, LibreOfficeOutput(docx))
               ELSE UNCHANGED <<fs, writers>>
    /\ UNCHANGED <<genLocals, substVars, evictVars, authVars, scanVars, frontVars>>

\* where a job goes when _convert_docx_to_pdf returns
AfterConvert(job) ==
    IF job.pc.type = "gigantografia" THEN [job.pc EXCEPT !.stage = "render"]
    ELSE AfterVariant(job.pc.type)

\* lines 465-467: generated_pdf = docx_path.replace('.docx', '.pdf');
\* if generated_pdf != pdf_path: os.rename(generated_pdf, pdf_path)
JobRename(i) ==
    LET docx == DocxPath(jobs[i].pc.type, jobs[i].project)
        pdf == PdfPath(jobs[i].pc.type, jobs[i].project)
        generated == GeneratedPdf(docx)
    IN
    /\ JobAt(i, "rename")
    /\ IF generated = pdf
       THEN /\ MoveJob(i, AfterConvert(jobs[i]))
            /\ UNCHANGED <<fs, writers>>
       ELSE IF IsFile(fs, generated)
       THEN /\ fs' = RenameFile(fs, generated, pdf)
            /\ writers' = WroteIn(Wrote(i, generated), i, pdf)
            /\ MoveJob(i, AfterConvert(jobs[i]))
       ELSE /\ JobRaises(i)
            /\ UNCHANGED <<fs, writers>>
    /\ UNCHANGED <<genLocals, substVars, evictVars, authVars, scanVars, frontVars>>

\* convert_from_path(pdf_temp_path) up to img.resize: nothing is written
JobRender(i) ==
    /\ JobAt(i, "render")
    /\ IF IsFile(fs, PdfPath("gigantografia", jobs[i].project))
       THEN MoveJob(i, [jobs[i].pc EXCEPT !.stage = "tiff"])
       ELSE JobRaises(i)
    /\ UNCHANGED <<fs, writers, genLocals, substVars, evictVars, authVars, scanVars, frontVars>>

\* img_resized.save(temp_img_path, 'TIFF')
JobSaveTiff(i) ==
    LET tiff == TempImgPath(jobs[i].project) IN
    /\ JobAt(i, "tiff")
    /\ IF Writable(tiff)
       THEN /\ fs' = WriteFile(fs, tiff, JobFile("tiff", jobs[i]))
            /\ writers' = Wrote(i, tiff)
            /\ MoveJob(i, [jobs[i].pc EXCEPT !.stage = "save"])
       ELSE /\ JobRaises(i)
            /\ UNCHANGED <<fs, writers>>
    /\ UNCHANGED <<genLocals, substVars, evictVars, authVars, scanVars, frontVars>>

\* c.drawImage(temp_img_path, ...) reads the image file; c.save() writes
\* pdf_final_path
JobCanvasSave(i) ==
    LET final == PdfFinalPath(jobs[i].project) IN
    /\ JobAt(i, "save")
    /\ IF IsFile(fs, TempImgPath(jobs[i].project)) /\ Writable(final)
       THEN /\ fs' = WriteFile(fs, final, JobFile("pdf", jobs[i]))
            /\ writers' = Wrote(i, final)
            /\ MoveJob(i, [jobs[i].pc EXCEPT !.stage = "rm_tiff"])
       ELSE /\ JobRaises(i)
            /\ UNCHANGED <<fs, writers>>
    /\ UNCHANGED <<genLocals, substVars, evictVars, authVars, scanVars, frontVars>>

\* the file each os.remove of lines 445-447 deletes, for a job
JobRemoveTarget(job) ==
    IF job.pc.stage = "rm_tiff" THEN TempImgPath(job.project)
    ELSE IF job.pc.stage = "rm_pdf" THEN PdfPath("gigantografia", job.project)
    ELSE DocxPath("gigantografia", job.project)

\* os.remove(...): raises when the file is gone
JobRemove(i) ==
    /\ jobs[i].pc.stage \in RemoveStages
    /\ IF IsFile(fs, JobRemoveTarget(jobs[i]))
       THEN /\ fs' = RemoveFile(fs, JobRemoveTarget(jobs[i]))
            /\ MoveJob(i, IF JobAt(i, "rm_tiff") THEN [jobs[i].pc EXCEPT !.stage = "rm_pdf"]
                          ELSE IF JobAt(i, "rm_pdf") THEN [jobs[i].pc EXCEPT !.stage = "rm_docx"]
                          ELSE Done)
       ELSE /\ JobRaises(i)
            /\ UNCHANGED fs
    /\ UNCHANGED <<writers, genLocals, substVars, evictVars, authVars, scanVars, frontVars>>

\* no invocations run side by side
ConcOff ==
    /\ jobs = <<>>
    /\ writers = <<>>

-----------------------------------------------------------------------------
(* The front end: the session store (stores/session.js), the router and its
   guard, LoginView.vue, the handleGenerate of the generator view, and the
   api client.  The server side of the auth requests is AuthService. *)

\* sessionId = ref(null)
null == 0

NoStore == [sessionId |-> null, authenticated |-> FALSE]

\* const isAuthenticated = computed(() => authenticated.value && sessionId.value !== null)
isAuthenticated(st) == st.authenticated /\ st.sessionId /= null

setSession(st, id) == [st EXCEPT !.sessionId = id]

\* setAuthenticated that leaves the flag as it is
setAuthenticated_Noop(st, value) == st

setAuthenticated(st, value) == [st EXCEPT !.authenticated = value]

\* the names of the routes
Routes == {"welcome", "login", "generator"}

\* meta: { requiresAuth: true }
RequiresAuth(to) == to = "generator"

\* a guard that lets every navigation through
beforeEach_Open(to, st) == to

\* router.beforeEach: the route a navigation to `to` ends at
beforeEach(to, st) ==
    IF RequiresAuth(to) /\ ~isAuthenticated(st) THEN "login" ELSE to

\* no LoginView is mounted; a mounted one has the number of its mount as id
NoLogin == [id |-> 0, currentQuestion |-> 1, loading |-> FALSE]

\* the refs of a GeneratorView at setup; inflight: its request awaits the
\* response.  The rest of handleGenerate touches only the refs of its own
\* view, so the request of a view that has been unmounted is left out
NoGenerator == [generating |-> FALSE, inflight |-> FALSE]

\* a request of a login view: api.startSession() or api.validateAnswer(...)
Request(kind, view, sid, question_number, answer) ==
    [kind |-> kind, view |-> view, sid |-> sid, question_number |-> question_number,
     answer |-> answer]

\* what happened last
Event(kind, to, isAuth, landed, success, next_question, outcome) ==
    [kind |-> kind, to |-> to, isAuth |-> isAuth, landed |-> landed, success |-> success,
     next_question |-> next_question, outcome |-> outcome]

\* an event no claim looks at
NoEvent == Event("other", "none", FALSE, "none", FALSE, 0, "none")

NoJournal ==
    [mounts |-> 0, last |-> NoEvent]

\* the router goes to `to` with the store st and the pending requests pend:
\* the guard decides where the navigation ends; a route that is left has its
\* view unmounted, a route that is entered has its view mounted with fresh
\* refs; onMounted of LoginView calls api.startSession()
After(to, st, pend) ==
    LET landed == beforeEach(to, st)
        mounts == IF landed = "login" /\ route /= "login"
                  THEN journal.mounts + 1 ELSE journal.mounts
    IN
    [ landed    |-> landed,
      mounts    |-> mounts,
      login     |-> IF landed = route THEN login
                    ELSE IF landed = "login" THEN [NoLogin EXCEPT !.id = mounts]
                    ELSE NoLogin,
      generator |-> IF landed = route THEN generator ELSE NoGenerator,
      pending   |-> IF landed = "login" /\ route /= "login"
                    THEN pend \cup {Request("start", mounts, null, 0, <<>>)}
                    ELSE pend ]

\* a navigation started by the user (a link, the address bar, the back button)
Navigate(to) ==
    LET after == After(to, store, pending) IN
    /\ after.mounts <= MaxMounts
    /\ Cardinality(after.pending) <= MaxPending
    /\ route' = after.landed
    /\ login' = after.login
    /\ generator' = after.generator
    /\ pending' = after.pending
    /\ journal' = [journal EXCEPT !.mounts = after.mounts,
                     !.last = IF RequiresAuth(to)
                              THEN Event("navigate", to,
                                         store.authenticated /\ store.sessionId /= null,
                                         after.landed, FALSE, 0, "none")
                              ELSE NoEvent]
    /\ UNCHANGED <<store, genVars, substVars, evictVars, authVars, concVars, scanVars>>

\* the response to api.startSession() arrives (lines 75-80 of LoginView.vue):
\* the server has made a session (AuthService.create_session) and the view
\* stores its id; the refs of a view that is no longer mounted are not shown
StartSessionResolves(req) ==
    LET sid == NewSessionId(sessions) IN
    /\ req \in pending /\ req.kind = "start"
    /\ sessions' = Put(sessions, sid, SessionData(sid, 1, FALSE))
    /\ store' = setSession(store, sid)
    /\ login' = IF req.view = login.id
                THEN [login EXCEPT !.currentQuestion = SecurityQuestions[1].number]
                ELSE login
    /\ pending' = pending \ {req}
    /\ journal' = [journal EXCEPT !.last = NoEvent]
    /\ UNCHANGED <<route, generator, progress, authReply, genReply>>
    /\ UNCHANGED <<genVars, substVars, evictVars, concVars, scanVars>>

\* api.startSession() is rejected (no answer, or an error status the
\* interceptor of the api client throws on): the catch block of onMounted
\* sets errorMessage only
StartSessionRejected(req) ==
    /\ req \in pending /\ req.kind = "start"
    /\ pending' = pending \ {req}
    /\ journal' = [journal EXCEPT !.last = NoEvent]
    /\ UNCHANGED <<store, route, login, generator>>
    /\ UNCHANGED <<genVars, substVars, evictVars, authVars, concVars, scanVars>>

\* what the user types as the answer to question q: a text that normalises
\* to the expected answer of q, or one that matches no question
Typed(q) ==
    { IF q = 1 THEN <<"Iglesia", " ", "Central">>
      ELSE IF q = 2 THEN <<" ", "LIMA", "!">>
      ELSE <<"esperanza", " ", "\t", "viva">>,
      <<"lima", " ", "!">> }

\* handleSubmit up to its await: the button is disabled while loading
handleSubmit(answer) ==
    /\ route = "login" /\ ~login.loading
    /\ Cardinality(pending) < MaxPending
    /\ login' = [login EXCEPT !.loading = TRUE]
    /\ pending' = pending \cup
                    {Request("validate", login.id, store.sessionId, login.currentQuestion, answer)}
    /\ journal' = [journal EXCEPT !.last = NoEvent]
    /\ UNCHANGED <<store, route, generator>>
    /\ UNCHANGED <<genVars, substVars, evictVars, authVars, concVars, scanVars>>

\* response.next_question as the view reads it: 0 when the field is missing
NextQuestionOf(result) ==
    IF "next_question" \in DOMAIN result THEN result.next_question ELSE 0

\* the refs of the login view after a response with a next question
\* (lines 99-104 and 113-119)
ShowQuestion(view, req, next_question) ==
    IF req.view = view.id
    THEN [view EXCEPT !.currentQuestion = next_question, !.loading = FALSE]
    ELSE view

\* the response to api.validateAnswer arrives with a body, the dictionary
\* AuthService.validate_answer has returned, and handleSubmit goes on after
\* its await (lines 98-120)
ValidateResolves(req) ==
    LET out == Validate(sessions, req.sid, req.question_number, req.answer)
        next_question == NextQuestionOf(out.result)
        done == out.result.success /\ next_question = 0
        st == IF done THEN setAuthenticated(store, TRUE) ELSE store
        after == After("generator", st, pending \ {req})
    IN
    /\ req \in pending /\ req.kind = "validate"
    /\ req.sid /= null
    /\ out.raised = ""
    /\ sessions' = out.sessions
    /\ store' = st
    /\ IF done
       THEN /\ after.mounts <= MaxMounts
            /\ Cardinality(after.pending) <= MaxPending
            /\ route' = after.landed
            /\ login' = after.login
            /\ generator' = after.generator
            /\ pending' = after.pending
            /\ journal' = [journal EXCEPT !.mounts = after.mounts,
                             !.last = Event("validate-reply", "generator",
                                            st.authenticated /\ st.sessionId /= null,
                                            after.landed, TRUE, 0, "body")]
       ELSE /\ login' = ShowQuestion(login, req, next_question)
            /\ pending' = pending \ {req}
            /\ journal' = [journal EXCEPT !.last = NoEvent]
            /\ UNCHANGED <<route, generator>>
    /\ UNCHANGED <<progress, authReply, genReply>>
    /\ UNCHANGED <<genVars, substVars, evictVars, concVars, scanVars>>

\* api.validateAnswer is rejected: the request does not reach the service (no
\* connection, or a session id of null, which ValidateAnswerRequest refuses
\* with 422), or the service has run (served_) and the endpoint answers 500
\* for its exception or for a dictionary ValidationResponse refuses; the
\* interceptor throws and the catch block of handleSubmit sets errorMessage
\* and loading
ValidateRejected(req, served_) ==
    LET out == Validate(sessions, req.sid, req.question_number, req.answer) IN
    /\ req \in pending /\ req.kind = "validate"
    /\ served_ => req.sid /= null /\ ValidateStatus(out) = 500
    /\ sessions' = IF served_ THEN out.sessions ELSE sessions
    /\ login' = IF req.view = login.id THEN [login EXCEPT !.loading = FALSE] ELSE login
    /\ pending' = pending \ {req}
    /\ journal' = [journal EXCEPT !.last = NoEvent]
    /\ UNCHANGED <<store, route, generator, progress, authReply, genReply>>
    /\ UNCHANGED <<genVars, substVars, evictVars, concVars, scanVars>>

\* handleGenerate up to its await (lines 812-823): the Generar button is
\* disabled while generating
handleGenerate ==
    /\ route = "generator" /\ ~generator.generating
    /\ generator' = [generating |-> TRUE, inflight |-> TRUE]
    /\ journal' = [journal EXCEPT !.last = NoEvent]
    /\ UNCHANGED <<store, route, login, pending>>
    /\ UNCHANGED <<genVars, substVars, evictVars, authVars, concVars, scanVars>>

\* the ways the awaited api.generateDocuments can end
GenerateOutcomes == {"success", "preview throws", "success false", "rejected"}

\* handleGenerate whose last statement of the try block resets the flag
AfterGenerate_NoFinally(outcome) == outcome \in {"preview throws", "rejected"}

\* generating.value after handleGenerate has finished: the finally block sets
\* it to false on every path
AfterGenerate(outcome) == FALSE

\* the awaited request ends and handleGenerate runs to its end (lines
\* 825-835); updatePreview may throw inside the try block
GenerateResolves(outcome) ==
    /\ route = "generator" /\ generator.inflight
    /\ generator' = [generator EXCEPT !.generating = AfterGenerate(outcome),
                                      !.inflight = FALSE]
    /\ journal' = [journal EXCEPT !.last = Event("generate-reply", "none", FALSE, "none",
                                                 outcome \in {"success", "preview throws"},
                                                 0, outcome)]
    /\ UNCHANGED <<store, route, login, pending>>
    /\ UNCHANGED <<genVars, substVars, evictVars, authVars, concVars, scanVars>>

\* the front end is not part of a behaviour
FrontOff ==
    /\ store = NoStore
    /\ route = "welcome"
    /\ login = NoLogin
    /\ generator = NoGenerator
    /\ pending = {}
    /\ journal = NoJournal

-----------------------------------------------------------------------------
(* The specification of the pipeline and the store *)

\* the templates are provisioned before the server starts; one may be missing
InitialFiles(present) ==
    [p \in { Resolve(TemplatePath(t)) : t \in present } |->
        IF p = Resolve(TemplatePath("a4")) THEN TemplateFile("a4") ELSE TemplateFile("4x1")]

Init ==
    /\ fs \in { InitialFiles(present) : present \in SUBSET TemplateTypes }
    /\ pc = Idle
    /\ project = <<>>
    /\ results = <<>>
    /\ attempted = <<>>
    /\ raisedLog = {}
    /\ img = NoImg
    /\ canvas = NoCanvas
    /\ served = 0
    /\ response = [filename |-> <<>>, path |-> <<>>, status |-> 0]
    /\ tplRuns = <<>>
    /\ data = [fecha_evento |-> Str(<<>>)]
    /\ filled = <<>>
    /\ substState = "off"
    /\ EvictOff
    /\ ConcOff
    /\ ScanOff
    /\ FrontOff
    /\ AuthOff

Next ==
    \/ \E p \in Projects : GenerateAll(p)
    \/ ProcessTemplateMissing
    \/ ProcessTemplateOk
    \/ ProcessTemplateFail
    \/ ConvertFail
    \/ \E w \in BOOLEAN : ConvertExitZero(w)
    \/ RenderFail
    \/ RenderNoPages
    \/ \E m \in Modes, s \in PageSizes : RenderOk(m, s)
    \/ ResizeOk
    \/ ResizeFail
    \/ SaveTiffOk
    \/ SaveTiffFail
    \/ DrawOk
    \/ DrawFail
    \/ CanvasSaveOk
    \/ CanvasSaveFail
    \/ RemoveOk
    \/ RemoveFail
    \/ \E f \in LookupNames : Download(f)

Spec == Init /\ [][Next]_vars

-----------------------------------------------------------------------------
(* The templates and the field values of the substitution *)

\* the pieces a paragraph of a template is written from: the four markers,
\* ordinary text, and the delimiters on their own
TemplatePieces ==
    { MarkerOf(MarkerKeys[k]) : k \in 1..4 } \cup { <<"x">>, <<"{{">>, <<"}}">> }

\* the texts of at most n pieces
RECURSIVE TextsUpTo(_)
TextsUpTo(n) ==
    IF n = 0 THEN { <<>> }
    ELSE TextsUpTo(n - 1)
         \cup { t \o q : t \in TextsUpTo(n - 1), q \in TemplatePieces }

\* a paragraph is one run, or two runs where the authoring tool has split the
\* text at any place, inside a marker too
Paragraphs ==
    { <<t>> : t \in TextsUpTo(MaxPieces) }
    \cup { <<SubSeq(t, 1, k), SubSeq(t, k + 1, Len(t))>> :
               <<t, k>> \in { <<u, j>> \in TextsUpTo(MaxPieces) \X (1..(3 * MaxPieces)) :
                                 j < Len(u) } }

\* the values of the request: the three required fields are non-empty
\* strings; referencia_evento may be empty, null, or left out
FieldSets ==
    { [k \in (IF r = <<"absent">> THEN {"fecha_evento", "hora_evento", "lugar_evento"}
              ELSE {"fecha_evento", "hora_evento", "lugar_evento", "referencia_evento"}) |->
         IF k = "fecha_evento" THEN Str(f)
         ELSE IF k = "hora_evento" THEN Str(h)
         ELSE IF k = "lugar_evento" THEN Str(l)
         ELSE IF r = <<"null">> THEN PyNone ELSE Str(r)] :
      f \in { <<"15 de Diciembre">>, <<"{{">> \o MarkerOf("referencia_evento") },
      h \in { <<"7:00 PM">>, MarkerOf("fecha_evento") },
      l \in { <<"Auditorio Central">>, <<"referencia_evento", "}}">> },
      r \in { <<>>, <<"absent">>, <<"null">>, <<"Frente al parque">>, MarkerOf("fecha_evento") } }

SubstInit ==
    /\ fs = InitialFiles(TemplateTypes)
    /\ pc = Idle
    /\ project = <<>>
    /\ results = <<>>
    /\ attempted = <<>>
    /\ raisedLog = {}
    /\ img = NoImg
    /\ canvas = NoCanvas
    /\ served = 0
    /\ response = [filename |-> <<>>, path |-> <<>>, status |-> 0]
    /\ tplRuns \in Paragraphs
    /\ data \in FieldSets
    /\ filled = <<>>
    /\ substState = "ready"
    /\ EvictOff
    /\ ConcOff
    /\ ScanOff
    /\ FrontOff
    /\ AuthOff

\* process_template: every run is rewritten and the document is saved
SubstituteAndSave ==
    LET out == ReplaceInRuns(tplRuns, data) IN
    /\ substState = "ready"
    /\ \A r \in 1..Len(out) : ~out[r].err
    /\ filled' = [r \in 1..Len(out) |-> out[r].text]
    /\ substState' = "saved"
    /\ UNCHANGED <<tplRuns, data, genVars, evictVars, authVars, concVars, scanVars, frontVars>>

\* process_template: a replacement raises, nothing is saved
SubstituteRaises ==
    LET out == ReplaceInRuns(tplRuns, data) IN
    /\ substState = "ready"
    /\ \E r \in 1..Len(out) : out[r].err
    /\ substState' = "error"
    /\ UNCHANGED <<tplRuns, data, filled, genVars, evictVars, authVars, concVars, scanVars, frontVars>>

SubstNext == SubstituteAndSave \/ SubstituteRaises

SubstSpec == SubstInit /\ [][SubstNext]_vars

-----------------------------------------------------------------------------
(* The store the eviction finds, and its specification *)

\* the names of the files left in the store by earlier requests
StoreNames ==
    { ReturnedFilename("a4", p) : p \in Projects }
    \cup { ReturnedFilename("gigantografia", <<"Campana_Navidad">>) }

\* a stock: the names of at most MaxStoreFiles files, each with its mtime
Stocks ==
    UNION { [S -> 0..MaxClock] : S \in { T \in SUBSET StoreNames : Cardinality(T) <= MaxStoreFiles } }

\* the values cleanup_hours is constructed with
CleanupHours == {1, 2}

\* the name of a file of the store
NameOf(p) == p[Len(p)]

EvictInit ==
    /\ \E stock \in Stocks :
          LET paths == { Resolve(StorePath(n)) : n \in DOMAIN stock } IN
          /\ fs = [p \in DOMAIN InitialFiles(TemplateTypes) \cup paths |->
                      IF p \in paths THEN OfficePdf(DocxFile("a4"))
                      ELSE InitialFiles(TemplateTypes)[p]]
          /\ mtimes = [p \in paths |-> stock[NameOf(p)]]
    /\ cleanup_hours \in CleanupHours
    /\ clock = 0
    /\ sweeps = <<>>
    /\ pc = Idle
    /\ project = <<>>
    /\ results = <<>>
    /\ attempted = <<>>
    /\ raisedLog = {}
    /\ img = NoImg
    /\ canvas = NoCanvas
    /\ served = 0
    /\ response = [filename |-> <<>>, path |-> <<>>, status |-> 0]
    /\ tplRuns = <<>>
    /\ data = [fecha_evento |-> Str(<<>>)]
    /\ filled = <<>>
    /\ substState = "off"
    /\ AuthOff
    /\ ConcOff
    /\ ScanOff
    /\ FrontOff

EvictNext == \E now \in 0..MaxClock, failing \in SUBSET StoreNames : CleanupOldFiles(now, failing)

EvictSpec == EvictInit /\ [][EvictNext]_vars

-----------------------------------------------------------------------------
(* The specification of a run of cleanup_old_files taken statement by
   statement *)

ScanInit ==
    /\ \E stock \in Stocks :
          LET paths == { Resolve(StorePath(n)) : n \in DOMAIN stock } IN
          /\ fs = [p \in DOMAIN InitialFiles(TemplateTypes) \cup paths |->
                      IF p \in paths THEN OfficePdf(DocxFile("a4"))
                      ELSE InitialFiles(TemplateTypes)[p]]
          /\ mtimes = [p \in paths |-> stock[NameOf(p)]]
    /\ cleanup_hours \in CleanupHours
    /\ clock = 0
    /\ sweeps = <<>>
    /\ scan = NoScan
    /\ FrontOff
    /\ pc = Idle
    /\ project = <<>>
    /\ results = <<>>
    /\ attempted = <<>>
    /\ raisedLog = {}
    /\ img = NoImg
    /\ canvas = NoCanvas
    /\ served = 0
    /\ response = [filename |-> <<>>, path |-> <<>>, status |-> 0]
    /\ tplRuns = <<>>
    /\ data = [fecha_evento |-> Str(<<>>)]
    /\ filled = <<>>
    /\ substState = "off"
    /\ AuthOff
    /\ ConcOff

ScanNext ==
    \/ \E now \in 0..MaxClock, order \in Orders(ListDir(fs)) : ScanStart(now, order)
    \/ ScanFor
    \/ ScanIsFile
    \/ ScanGetMtime
    \/ ScanRemoveOk
    \/ ScanRemoveFail
    \/ \E name \in StoreNames : OtherRemoves(name)

ScanSpec == ScanInit /\ [][ScanNext]_vars

-----------------------------------------------------------------------------
(* The requests of the auth endpoints, and their specification *)

\* the session ids of the requests: 0 was never issued
SessionIds == 0..MaxSessions

\* the question numbers of the requests
QuestionNumbers == 0 - 1..4

\* the answers of the requests: one that normalises to the expected answer of
\* each question, and "lima !", which normalises to "lima " and matches none
Answers ==
    { <<"Iglesia", " ", "Central">>, <<" ", "LIMA", "!">>,
      <<"esperanza", " ", "\t", "viva">>, <<"lima", " ", "!">> }

AuthInit ==
    /\ sessions = <<>>
    /\ progress = <<>>
    /\ authReply = NoAuthReply
    /\ genReply = NoGenReply
    /\ fs = InitialFiles(TemplateTypes)
    /\ pc = Idle
    /\ project = <<>>
    /\ results = <<>>
    /\ attempted = <<>>
    /\ raisedLog = {}
    /\ img = NoImg
    /\ canvas = NoCanvas
    /\ served = 0
    /\ response = [filename |-> <<>>, path |-> <<>>, status |-> 0]
    /\ tplRuns = <<>>
    /\ data = [fecha_evento |-> Str(<<>>)]
    /\ filled = <<>>
    /\ substState = "off"
    /\ EvictOff
    /\ ConcOff
    /\ ScanOff
    /\ FrontOff

AuthNext ==
    \/ CreateSession
    \/ \E sid \in SessionIds, q \in QuestionNumbers, a \in Answers : ValidateAnswer(sid, q, a)

AuthSpec == AuthInit /\ [][AuthNext]_vars

-----------------------------------------------------------------------------
(* The generate endpoint behind the authentication, and its specification *)

\* the table after create_session()
Created(table) == Put(table, NewSessionId(table), SessionData(NewSessionId(table), 1, FALSE))

\* two sessions: the first has answered the three questions, the second the
\* first two
SessionsAtStart ==
    LET t0 == Created(Created(<<>>))
        t1 == Validate(t0, 1, 1, <<"Iglesia", " ", "Central">>).sessions
        t2 == Validate(t1, 1, 2, <<"lima">>).sessions
        t3 == Validate(t2, 1, 3, <<"esperanza", " ", "viva">>).sessions
        t4 == Validate(t3, 2, 1, <<"Iglesia", " ", "Central">>).sessions
    IN Validate(t4, 2, 2, <<"lima">>).sessions

\* nombre_proyecto of the requests: the project names, and a blank one
RequestProjects == Projects \cup { <<" ">> }

\* the session ids of the generate requests: 0 was never issued
RequestSessions == 0..2

EndpointInit ==
    /\ sessions = SessionsAtStart
    /\ progress = [sid \in DOMAIN SessionsAtStart |-> IF sid = 1 THEN 3 ELSE 2]
    /\ authReply = NoAuthReply
    /\ genReply = NoGenReply
    /\ fs \in { InitialFiles(TemplateTypes), InitialFiles({"4x1"}) }
    /\ pc = Idle
    /\ project = <<>>
    /\ results = <<>>
    /\ attempted = <<>>
    /\ raisedLog = {}
    /\ img = NoImg
    /\ canvas = NoCanvas
    /\ served = 0
    /\ response = [filename |-> <<>>, path |-> <<>>, status |-> 0]
    /\ tplRuns = <<>>
    /\ data = [fecha_evento |-> Str(<<>>)]
    /\ filled = <<>>
    /\ substState = "off"
    /\ EvictOff
    /\ ConcOff
    /\ ScanOff
    /\ FrontOff

EndpointNext ==
    \/ \E sid \in RequestSessions, p \in RequestProjects : GenerateDocuments(sid, p)
    \/ ProcessTemplateMissing
    \/ ProcessTemplateOk
    \/ ProcessTemplateFail
    \/ ConvertFail
    \/ \E w \in BOOLEAN : ConvertExitZero(w)
    \/ RenderFail
    \/ RenderNoPages
    \/ \E m \in Modes, s \in PageSizes : RenderOk(m, s)
    \/ ResizeOk
    \/ ResizeFail
    \/ SaveTiffOk
    \/ SaveTiffFail
    \/ DrawOk
    \/ DrawFail
    \/ CanvasSaveOk
    \/ CanvasSaveFail
    \/ RemoveOk
    \/ RemoveFail

EndpointSpec == EndpointInit /\ [][EndpointNext]_vars

-----------------------------------------------------------------------------
(* Two requests served at the same time, and their specification *)

\* nombre_proyecto of the two requests: the same name twice, two spellings
\* of one name, and two names that differ in an extension they hold
ConcRequests ==
    { << <<"Campana_Navidad">>, <<"Campana_Navidad">> >>,
      << <<"Campana_Navidad">>, <<".", "/", "Campana_Navidad">> >>,
      << <<"afiche", ".pdf">>, <<"afiche", ".docx">> >>,
      << <<"Campana_Navidad">>, <<"afiche", ".docx">> >> }

ConcInit ==
    /\ \E names \in ConcRequests :
          jobs = [i \in JobIds |->
                    [project |-> names[i],
                     contents |-> i,
                     pc |-> [type |-> "a4", stage |-> "template"]]]
    /\ writers = <<>>
    /\ fs = InitialFiles(TemplateTypes)
    /\ pc = Idle
    /\ project = <<>>
    /\ results = <<>>
    /\ attempted = <<>>
    /\ raisedLog = {}
    /\ img = NoImg
    /\ canvas = NoCanvas
    /\ served = 0
    /\ response = [filename |-> <<>>, path |-> <<>>, status |-> 0]
    /\ tplRuns = <<>>
    /\ data = [fecha_evento |-> Str(<<>>)]
    /\ filled = <<>>
    /\ substState = "off"
    /\ EvictOff
    /\ AuthOff
    /\ ScanOff
    /\ FrontOff

ConcNext ==
    \E i \in JobIds :
        \/ JobProcessTemplate(i)
        \/ \E outcome \in {"nonzero", "written", "nothing"} : JobLibreOffice(i, outcome)
        \/ JobRename(i)
        \/ JobRender(i)
        \/ JobSaveTiff(i)
        \/ JobCanvasSave(i)
        \/ JobRemove(i)

ConcSpec == ConcInit /\ [][ConcNext]_vars

-----------------------------------------------------------------------------
(* The front end and the auth service behind it, and their specification *)

FrontInit ==
    /\ FrontOff
    /\ sessions = <<>>
    /\ progress = <<>>
    /\ authReply = NoAuthReply
    /\ genReply = NoGenReply
    /\ fs = InitialFiles(TemplateTypes)
    /\ pc = Idle
    /\ project = <<>>
    /\ results = <<>>
    /\ attempted = <<>>
    /\ raisedLog = {}
    /\ img = NoImg
    /\ canvas = NoCanvas
    /\ served = 0
    /\ response = [filename |-> <<>>, path |-> <<>>, status |-> 0]
    /\ tplRuns = <<>>
    /\ data = [fecha_evento |-> Str(<<>>)]
    /\ filled = <<>>
    /\ substState = "off"
    /\ EvictOff
    /\ ConcOff
    /\ ScanOff

FrontNext ==
    \/ \E to \in Routes : Navigate(to)
    \/ \E req \in pending : StartSessionResolves(req)
    \/ \E req \in pending : StartSessionRejected(req)
    \/ \E answer \in Typed(login.currentQuestion) : handleSubmit(answer)
    \/ \E req \in pending : ValidateResolves(req)
    \/ \E req \in pending, served_ \in BOOLEAN : ValidateRejected(req, served_)
    \/ handleGenerate
    \/ \E outcome \in GenerateOutcomes : GenerateResolves(outcome)

FrontSpec == FrontInit /\ [][FrontNext]_vars

-----------------------------------------------------------------------------
(* Claims about generate_all *)

\* C1: when generate_all returns, the list holds exactly three results, one
\* per variant, in the order a4 (compact), 4x1 (banner), gigantografia
\* (large format), whichever stages failed.
C1_ThreeResultsInFixedOrder ==
    pc = Done =>
        /\ Len(results) = 3
        /\ <<results[1].type, results[2].type, results[3].type>>
               = <<"a4", "4x1", "gigantografia">>

\* a request has returned after at least one stage failed
C1_Witness == pc = Done /\ Len(results) = 3 /\ raisedLog /= {}

\* C2: an exception in one variant's pipeline never keeps the other two from
\* being attempted: once generate_all is over, each of the three _generate_*
\* methods has been called, once, whatever was raised.
C2_AllVariantsAttempted ==
    /\ pc \in {Done, Raised} => attempted = <<"a4", "4x1", "gigantografia">>
    /\ \A e \in raisedLog :
          /\ e.type = "a4" => \E k \in 1..Len(attempted) : attempted[k] = "4x1"
          /\ e.type = "4x1" => \E k \in 1..Len(attempted) : attempted[k] = "gigantografia"

\* the first two pipelines raised and the third was still run to its end
C2_Witness ==
    /\ pc = Done
    /\ \E e \in raisedLog : e.type = "a4"
    /\ \E e \in raisedLog : e.type = "4x1"
    /\ attempted = <<"a4", "4x1", "gigantografia">>
    /\ results[3].status = "success"

\* C3: no exception of a pipeline stage leaves generate_all; each one is
\* turned into the result of its variant, with status "error", an empty
\* filename and the exception's text as message.
C3_ErrorsBecomeResults ==
    /\ pc /= Raised
    /\ \A e \in raisedLog :
          \E i \in 1..Len(results) :
              /\ results[i].type = e.type
              /\ results[i].status = "error"
              /\ results[i].filename = <<>>
              /\ "message" \in DOMAIN results[i]
              /\ results[i].message = e.error
              /\ results[i].message /= ""

\* all three pipelines raised, each at another stage, and the call returned
C3_Witness ==
    /\ pc = Done
    /\ \E e \in raisedLog : e.type = "a4" /\ e.stage = "template"
    /\ \E e \in raisedLog : e.type = "4x1" /\ e.stage = "convert"
    /\ \E e \in raisedLog : e.type = "gigantografia" /\ e.stage = "render"

\* the suffix of each variant, as the filename convention gives it
SuffixOf(type) ==
    IF type = "a4" THEN "_a4" ELSE IF type = "4x1" THEN "_4x1" ELSE "_gigantografia"

\* C4: the filename of every successful result is the project name, verbatim,
\* followed by _a4.pdf, _4x1.pdf or _gigantografia.pdf according to its variant.
C4_FilenameConvention ==
    \A i \in 1..Len(results) :
        results[i].status = "success" =>
            /\ results[i].type = <<"a4", "4x1", "gigantografia">>[i]
            /\ results[i].filename = project \o <<SuffixOf(results[i].type), ".pdf">>

\* the three variants of one request succeeded
C4_Witness ==
    /\ pc = Done
    /\ \A i \in 1..3 : results[i].status = "success"

\* the compact template is missing, the banner template is there, and nothing
\* but the missing template made a stage raise
OnlyCompactTemplateMissing ==
    /\ ~PathExists(fs, TemplatePath("a4"))
    /\ PathExists(fs, TemplatePath("4x1"))
    /\ \A e \in raisedLog :
          e.stage = "template" /\ e.error = "FileNotFoundError: Plantilla no encontrada"

\* C5, as claimed: with only the compact template missing, the compact result
\* is an error and the banner and large-format results are those of a run
\* where every stage works.
C5_OthersUnaffected ==
    (pc = Done /\ OnlyCompactTemplateMissing) =>
        /\ results[1].status = "error"
        /\ results[2].status = "success"
        /\ results[3].status = "success"

\* C5, amended: with only the compact template missing, all three variants are
\* attempted; the compact result and the large-format result, which is built
\* from the same template, are errors; the banner result is a success.
C5_OnlyBannerUnaffected ==
    (pc = Done /\ OnlyCompactTemplateMissing) =>
        /\ attempted = <<"a4", "4x1", "gigantografia">>
        /\ results[1].status = "error"
        /\ results[2].status = "success"
        /\ results[2].filename = project \o <<"_4x1", ".pdf">>
        /\ results[3].status = "error"
        /\ results[3].message = "FileNotFoundError: Plantilla no encontrada"

\* a request has returned with only the compact template missing
C5_Witness ==
    /\ pc = Done
    /\ OnlyCompactTemplateMissing
    /\ results[2].status = "success"

ConversionFailed == {"CalledProcessError: libreoffice"}

\* C20: _convert_docx_to_pdf fails with the converter's own error, never with
\* a raw file-not-found error, when LibreOffice exits with a non-zero status
\* or leaves no output; when it succeeds the PDF is at the path asked for.
C20_ConversionFailsCleanly ==
    /\ \A e \in raisedLog : e.stage = "convert" => e.error \in ConversionFailed
    /\ \A k \in 1..Len(results) :
          (results[k].status = "success" /\ results[k].type \in {"a4", "4x1"}) =>
              IsFile(fs, PdfPath(results[k].type, project))

\* the large-format pipeline has returned to generate_all
GigantografiaReturned == Len(results) = 3

\* the files _generate_gigantografia creates on its way to the final PDF
Intermediates(projectName) ==
    { DocxPath("gigantografia", projectName), PdfPath("gigantografia", projectName),
      TempImgPath(projectName) }

\* C21: when the large-format pipeline has returned, with success or with a
\* failure at any stage, none of the intermediate files it created (filled
\* document, intermediate PDF, raster file) is left in the storage directory.
C21_NoIntermediateLeft ==
    GigantografiaReturned => \A f \in Intermediates(project) : ~IsFile(fs, f)

\* C22: a failing deletion of an intermediate file is not raised: once the
\* final PDF has been written, the large-format result is status=success even
\* if one of the deletions failed.
C22_CleanupIsBestEffort ==
    ( /\ GigantografiaReturned
      /\ \E e \in raisedLog : e.type = "gigantografia" /\ e.stage \in RemoveStages ) =>
        results[3].status = "success"

\* C24: right after generate_all has returned, the file named by every
\* status=success result is in the storage root and get_file_path gives a
\* path for it.
C24_SuccessFilesExist ==
    pc = Done =>
        \A k \in 1..Len(results) :
            results[k].status = "success" =>
                /\ GetFilePath(fs, results[k].filename) /= None
                /\ IsFile(fs, StorePath(results[k].filename))

\* C25: in every result, status is success or error, status=success holds
\* exactly when the filename is not empty, and a message is there exactly
\* when status=error.
C25_ResultShape ==
    \A k \in 1..Len(results) :
        /\ results[k].status \in {"success", "error"}
        /\ results[k].status = "success" <=> results[k].filename /= <<>>
        /\ "message" \in DOMAIN results[k] <=> results[k].status = "error"

\* generate_all has returned results of both kinds
C25_Witness ==
    /\ pc = Done
    /\ \E k \in 1..3 : results[k].status = "success"
    /\ \E k \in 1..3 : results[k].status = "error"

-----------------------------------------------------------------------------
(* Claims about the substitution *)

\* the text of a paragraph: its runs, one after the other
RECURSIVE Flatten(_)
Flatten(runs) == IF runs = <<>> THEN <<>> ELSE Head(runs) \o Flatten(Tail(runs))

\* a marker starts at position i of the text
MarkerAt(text, i) == \E k \in 1..4 : OccursAt(text, i, MarkerOf(MarkerKeys[k]))

HasMarker(text) == \E i \in 1..Len(text) : MarkerAt(text, i)

\* the value a field set gives a key: its string, the empty string if left out
ValueOf(d, key) == IF key \in DOMAIN d THEN d[key].text ELSE <<>>

\* the text with each marker token replaced by the value of its field and
\* every other lexeme kept
RECURSIVE MarkersReplaced(_, _, _)
MarkersReplaced(text, i, d) ==
    IF i > Len(text) THEN <<>>
    ELSE IF MarkerAt(text, i)
         THEN ValueOf(d, text[i + 1]) \o MarkersReplaced(text, i + 3, d)
         ELSE <<text[i]>> \o MarkersReplaced(text, i + 1, d)

\* a valid field set: every value is a string, the required ones non-empty
ValidFields(d) ==
    /\ \A k \in DOMAIN d : ~d[k].none
    /\ \A k \in {"fecha_evento", "hora_evento", "lugar_evento"} :
          k \in DOMAIN d /\ d[k].text /= <<>>

\* no marker of the paragraph is split over two runs
MarkersInSingleRuns(runs) ==
    \A i \in 1..Len(Flatten(runs)) :
        MarkerAt(Flatten(runs), i) =>
            \A j \in 1..(Len(runs) - 1) :
                LET b == Len(Flatten(SubSeq(runs, 1, j))) IN ~(i <= b /\ b < i + 2)

\* the text left of a template when its marker tokens are taken out
Literals(text) == MarkersReplaced(text, 1, <<>>)

\* every lexeme of s, in order, is in t
RECURSIVE IsSubsequence(_, _)
IsSubsequence(s, t) ==
    IF s = <<>> THEN TRUE
    ELSE IF t = <<>> THEN FALSE
    ELSE IF Head(s) = Head(t) THEN IsSubsequence(Tail(s), Tail(t))
    ELSE IsSubsequence(s, Tail(t))

\* C6: for every valid field set and every template whose markers each lie
\* inside one run, the filled document holds no marker token and every
\* character of the template outside its markers is kept.
C6_NoMarkerLeft ==
    (substState = "saved" /\ ValidFields(data) /\ MarkersInSingleRuns(tplRuns)) =>
        /\ Len(filled) = Len(tplRuns)
        /\ ~HasMarker(Flatten(filled))
        /\ \A r \in 1..Len(tplRuns) : IsSubsequence(Literals(tplRuns[r]), filled[r])

\* referencia_evento is the empty string, or is left out
ReferenceEmpty(d) ==
    "referencia_evento" \in DOMAIN d => d["referencia_evento"] = Str(<<>>)

\* C7: with an empty or absent reference no error is raised, and the document
\* filled from a template whose markers each lie inside one run never holds
\* the literal reference marker.
C7_NoLiteralReferenceMarker ==
    (substState /= "ready" /\ ReferenceEmpty(data) /\ MarkersInSingleRuns(tplRuns)) =>
        /\ substState = "saved"
        /\ ~Contains(Flatten(filled), MarkerOf("referencia_evento"))

-----------------------------------------------------------------------------
(* Claims about the eviction *)

\* the last run of cleanup_old_files
LastSweep == sweeps[Len(sweeps)]

\* the age a file had in a run: now minus its last-modified time
AgeIn(sweep, n) == sweep.at - sweep.before[n]

\* the regular files of the store, each with its mtime
StoreNow ==
    [n \in { m \in ListDir(fs) : IsFile(fs, StorePath(m)) } |-> mtimes[Resolve(StorePath(n))]]

RemovedIn(sweep) == sweep.tried \ sweep.failed

AgedLeft ==
    { n \in scan.listed :
        /\ IsFile(fs, StorePath(n))
        /\ Expired(mtimes[Resolve(StorePath(n))], scan.cutoff) }

\* C23: an error on one file (its deletion fails, or the file has gone before
\* it is examined) does not abort the run of cleanup_old_files: the run
\* returns normally, and every aged file of the listing has then been handed
\* to os.remove and is gone unless its own deletion failed.
C23_SweepNeverAborts ==
    /\ scan.stage /= "raised"
    /\ scan.stage = "returned" => AgedLeft \subseteq scan.failed

-----------------------------------------------------------------------------
(* Claims about the authentication *)

\* the session of the last generate request exists and is authenticated
CallerAuthenticated ==
    genReply.sid \in DOMAIN sessions /\ sessions[genReply.sid].authenticated

\* C13: a generate request whose session is unknown or not authenticated is
\* answered 401 before generate_all is called: it processes no template and
\* writes nothing to the store; generation only runs for an authenticated
\* session.
C13_GenerationOnlyWhenAuthenticated ==
    [][ /\ ( /\ genReply' /= genReply
             /\ ~(genReply'.sid \in DOMAIN sessions /\ sessions[genReply'.sid].authenticated) ) =>
               /\ genReply'.status = 401
               /\ UNCHANGED <<fs, pc, project, results, attempted, served>>
        /\ (fs' /= fs \/ attempted' /= attempted \/ served' /= served) =>
               /\ genReply'.sid \in DOMAIN sessions
               /\ sessions[genReply'.sid].authenticated
               /\ genReply'.status = 0 ]_vars

\* a session that exists but has not answered question 3 asked for a
\* generation: 401, nothing was attempted and the store is empty
C13_Witness ==
    /\ genReply.status = 401
    /\ genReply.sid \in DOMAIN sessions
    /\ ~sessions[genReply.sid].authenticated
    /\ sessions[genReply.sid].current_question = 3
    /\ attempted = <<>>
    /\ pc = Idle
    /\ { n \in ListDir(fs) : IsFile(fs, StorePath(n)) } = {}

\* the last request was validate_answer
Validated == authReply.op = "validate-answer"

\* the answer of the last request is the expected one of its question
AnsweredCorrectly ==
    NormalizeText(authReply.answer) = SecurityQuestions[authReply.question_number].answer

\* C14: a session that has answered questions 1, 2 and 3 correctly in
\* sequence is authenticated afterwards; a correct answer to question q < 3
\* moves the session to question q + 1.
C14_CorrectSequenceAuthenticates ==
    /\ \A sid \in DOMAIN sessions : progress[sid] = 3 => sessions[sid].authenticated
    /\ ( /\ Validated
         /\ authReply.sid \in DOMAIN sessions
         /\ authReply.question_number \in {1, 2}
         /\ AnsweredCorrectly ) =>
           /\ sessions[authReply.sid].current_question = authReply.question_number + 1
           /\ authReply.result.success
           /\ authReply.result.next_question = authReply.question_number + 1

\* a session has answered 1, 2 and 3 correctly in order, the last answer
\* being the one to question 3, and is authenticated
C14_Witness ==
    /\ Validated
    /\ authReply.sid \in DOMAIN sessions
    /\ authReply.question_number = 3
    /\ progress[authReply.sid] = 3
    /\ sessions[authReply.sid].authenticated

\* C15: an incorrect answer to a question of a valid session resets the
\* session's current question to 1, and the response names question 1 as the
\* next question.
C15_IncorrectAnswerResets ==
    ( /\ Validated
      /\ authReply.sid \in DOMAIN sessions
      /\ authReply.question_number \in 1..3
      /\ ~AnsweredCorrectly ) =>
        /\ sessions[authReply.sid].current_question = 1
        /\ authReply.result.success = FALSE
        /\ authReply.result.next_question = 1
        /\ authReply.result.question_text = SecurityQuestions[1].text

\* a session that had come to question 3 gave an incorrect answer to it and
\* is back at question 1
C15_Witness ==
    /\ Validated
    /\ authReply.sid \in DOMAIN sessions
    /\ authReply.question_number = 3
    /\ ~AnsweredCorrectly
    /\ progress[authReply.sid] = 0
    /\ sessions[authReply.sid].current_question = 1
    /\ authReply.result.next_question = 1

\* C16: validate_answer for a session_id that is not in the table raises an
\* error, leaves every session as it was and creates none.
C16_UnknownSessionChangesNothing ==
    [][ (authReply'.op = "validate-answer" /\ authReply'.sid \notin DOMAIN sessions) =>
            /\ sessions' = sessions
            /\ authReply'.result = [error |-> "ValueError"]
            /\ authReply'.status >= 400 ]_vars

\* validate_answer was called for an unknown id while a session existed that
\* had left question 1
C16_Witness ==
    /\ Validated
    /\ authReply.sid \notin DOMAIN sessions
    /\ authReply.result = [error |-> "ValueError"]
    /\ \E sid \in DOMAIN sessions : sessions[sid].current_question = 2

\* C19: a session is authenticated only after it has given correct answers
\* to questions 1, 2 and 3 in this order with no incorrect answer in between.
C19_AuthenticatedOnlyAfterAllThree ==
    \A sid \in DOMAIN sessions : sessions[sid].authenticated => progress[sid] = 3

-----------------------------------------------------------------------------
(* Claims about invocations that run at the same time *)

\* a file of the store has been written by both jobs
WrittenByBoth == \E p \in DOMAIN writers : Cardinality(writers[p]) > 1

\* C17: two generate_all invocations that run at the same time with distinct
\* project_name values never write the same file of the store, final or
\* intermediate, under any interleaving of their steps.
C17_DistinctNamesDistinctFiles ==
    jobs /= <<>> /\ jobs[1].project /= jobs[2].project => ~WrittenByBoth

\* C18: two requests with different contents that run at the same time are
\* not allowed to collide on one project_name: no file is written by both.
C18_SameNameNeverCollides ==
    ( /\ jobs /= <<>>
      /\ jobs[1].project = jobs[2].project
      /\ jobs[1].contents /= jobs[2].contents ) => ~WrittenByBoth

-----------------------------------------------------------------------------
(* Claims about the front end *)

\* the last event is a navigation to a route that requires authentication,
\* started by the user or by router.push
GuardedNavigation ==
    journal.last.kind \in {"navigate", "validate-reply"} /\ RequiresAuth(journal.last.to)

\* C26: the router is never at the generator route while the store's
\* isAuthenticated is false: a navigation to a route with requiresAuth made
\* while authenticated is false or sessionId is null ends at the login route.
C26_GuardRedirectsToLogin ==
    /\ route = "generator" => store.authenticated /\ store.sessionId /= null
    /\ (GuardedNavigation /\ ~journal.last.isAuth) =>
            journal.last.landed = "login" /\ route = "login"

\* the user has gone to the generator route without being authenticated and
\* is at the login route
C26_Witness ==
    /\ journal.last.kind = "navigate" /\ journal.last.to = "generator"
    /\ ~journal.last.isAuth
    /\ route = "login"

\* C27: whenever the store's isAuthenticated is true, the sessionId it holds
\* is a session the backend holds as authenticated.
C27_StoreSessionIsAuthenticated ==
    (store.authenticated /\ store.sessionId /= null) =>
        store.sessionId \in DOMAIN sessions /\ sessions[store.sessionId].authenticated

\* C28: when the response to validate-answer has success = true and no next
\* question, the store is authenticated and the navigation to the generator
\* route gets through the guard.
C28_AuthenticatedGoesToGenerator ==
    journal.last.kind = "validate-reply" =>
        /\ store.authenticated
        /\ journal.last.landed = "generator"
        /\ route = "generator"

\* the third answer has been accepted and the router is at the generator route
C28_Witness ==
    /\ journal.last.kind = "validate-reply"
    /\ journal.last.success /\ journal.last.next_question = 0
    /\ route = "generator"

\* C29: no validate-answer request is sent with a session id of null,
\* however the startSession call of the mount and the submission of the form
\* interleave.
C29_NoValidateWithNullSession ==
    \A req \in pending : req.kind = "validate" => req.sid /= null

-----------------------------------------------------------------------------
(* Claims about the lookup of the download endpoint *)

\* a regular file of that exact name lies directly inside the storage root
RegularFileInRoot(files, filename) == Append(StorageRoot, filename) \in DOMAIN files

\* the filename holds no path-traversal sequence
PlainName(filename) ==
    /\ filename /= <<"..">>
    /\ \A k \in 1..Len(filename) : filename[k] /= "/"

\* C9: for a filename without traversal sequences, the lookup gives a path
\* exactly when a regular file of that name lies directly inside the storage
\* root; for every other name (absent, or a directory) it gives none and the
\* endpoint answers 404.
C9_PathOnlyForRegularFiles ==
    (response.status /= 0 /\ PlainName(response.filename)) =>
        IF RegularFileInRoot(fs, response.filename)
        THEN response.path /= None
        ELSE response.path = None /\ response.status = 404

\* the path is the storage root or lies inside it
InsideStorageRoot(p) ==
    /\ Len(p) >= Len(StorageRoot)
    /\ SubSeq(p, 1, Len(StorageRoot)) = StorageRoot

\* C10: the lookup never gives a path that lies outside the storage root.
C10_NoPathOutsideRoot ==
    response.path /= None => InsideStorageRoot(Resolve(response.path))

====
